---- MODULE Spec2Model ----
(***************************************************************************)
(* Model of src/220_Lab/plot_metrics.py: the stat reader read_stat_value   *)
(* and the metric aggregator compute_metrics, with the two lines of main   *)
(* that hand a result to plot_data.                                        *)
(*                                                                         *)
(* Text is a sequence of tokens.  A token is one character ("," " " "\n"   *)
(* "/" "." "-" "+" a digit, a letter) or a whole name written as one token *)
(* ("Periodic_Cycles", "bench1"); a name token contains no separator and   *)
(* no leading or trailing whitespace, so str.split and str.strip act on a  *)
(* token sequence exactly as on the string it spells.                      *)
(*                                                                         *)
(* A float is the exact rational <<n, d>> in lowest terms with d > 0.      *)
(* Python's None is the empty tuple.                                       *)
(***************************************************************************)
EXTENDS Integers, Sequences, FiniteSets, TLC

VARIABLES
    fs,           \* the files that exist: path -> sequence of lines
    stat_path,    \* read_stat_value: argument
    key,          \* read_stat_value: argument
    rpc,          \* read_stat_value: "idle" | "call" | "returned"
    ret,          \* read_stat_value: returned value
    descriptor,   \* compute_metrics: argument
    metric,       \* compute_metrics: argument
    pc,           \* compute_metrics/main: "idle" | "call" | "loop" | "returned" | "raised" | "plotted" | "keyerror"
    benches, configs, exp,
    ci, bi,       \* positions of the two for loops (1-based)
    values,       \* the list being built for configs[ci]
    data,         \* ordered dict: [keys |-> sequence of names, val |-> name -> list]
    ylabel, ylim,
    lookups,      \* per executed loop body: the read_stat_value calls it made, in order
    result,       \* the returned 4-tuple, None before the return
    output_files  \* files written by plot_data

vars == <<fs, stat_path, key, rpc, ret, descriptor, metric, pc, benches, configs,
          exp, ci, bi, values, data, ylabel, ylim, lookups, result, output_files>>

readerVars == <<stat_path, key, rpc, ret>>
computeVars == <<descriptor, metric, pc, benches, configs, exp, ci, bi, values,
                 data, ylabel, ylim, lookups, result, output_files>>

----------------------------------------------------------------------------
(* Bounds *)

MaxLines == 3        \* lines per file handed to read_stat_value alone
MaxWorkloads == 2    \* entries of descriptor["workloads_list"]

----------------------------------------------------------------------------
(* Python values *)

None == <<>>

Abs(n) == IF n < 0 THEN -n ELSE n

RECURSIVE GCD(_, _)
GCD(a, b) == IF b = 0 THEN a ELSE GCD(b, a % b)

\* n/d with the common factor g taken out and the sign in the numerator
Reduce(n, d, g) == <<((IF d < 0 THEN -1 ELSE 1) * n) \div g, Abs(d) \div g>>

\* the float n/d, d # 0
Rat(n, d) == Reduce(n, d, GCD(Abs(n), Abs(d)))

Zero == <<0, 1>>

FloatOfInt(n) == <<n, 1>>

FloatAdd(a, b) == Rat(a[1] * b[2] + b[1] * a[2], a[2] * b[2])

\* what a division by 0.0 leaves in place of a float
ZeroDivisionError == <<0, 0>>

\* a / b
FloatDiv(a, b) == IF b[1] = 0 THEN ZeroDivisionError ELSE Rat(a[1] * b[2], a[2] * b[1])

FloatGt0(a) == a[1] > 0

\* `x or 0.0`: None and 0.0 are falsy
OrZero(x) == IF x = None \/ x = Zero THEN Zero ELSE x

RECURSIVE sum(_)
sum(vs) == IF vs = <<>> THEN Zero ELSE FloatAdd(sum(SubSeq(vs, 1, Len(vs) - 1)), vs[Len(vs)])

----------------------------------------------------------------------------
(* str.split, str.strip, float() *)

Whitespace == {" ", "\t", "\n", "\r"}

Digits == {"0", "1", "2", "3", "4", "5", "6", "7", "8", "9"}

DigitVal(t) ==
    CASE t = "0" -> 0 [] t = "1" -> 1 [] t = "2" -> 2 [] t = "3" -> 3 [] t = "4" -> 4
      [] t = "5" -> 5 [] t = "6" -> 6 [] t = "7" -> 7 [] t = "8" -> 8 [] t = "9" -> 9

\* index of the first sep in s, 0 when there is none
Find(s, sep) ==
    IF \E i \in 1..Len(s) : s[i] = sep
    THEN CHOOSE i \in 1..Len(s) : s[i] = sep /\ \A j \in 1..(i - 1) : s[j] # sep
    ELSE 0

RECURSIVE Split(_, _)
Split(s, sep) ==
    LET i == Find(s, sep)
    IN  IF i = 0 THEN <<s>>
        ELSE <<SubSeq(s, 1, i - 1)>> \o Split(SubSeq(s, i + 1, Len(s)), sep)

RECURSIVE LStrip(_)
LStrip(s) == IF s # <<>> /\ s[1] \in Whitespace THEN LStrip(Tail(s)) ELSE s

RECURSIVE RStrip(_)
RStrip(s) ==
    IF s # <<>> /\ s[Len(s)] \in Whitespace THEN RStrip(SubSeq(s, 1, Len(s) - 1)) ELSE s

Strip(s) == RStrip(LStrip(s))

AllDigits(s) == \A i \in 1..Len(s) : s[i] \in Digits

RECURSIVE DigitsVal(_)
DigitsVal(s) ==
    IF s = <<>> THEN 0
    ELSE DigitsVal(SubSeq(s, 1, Len(s) - 1)) * 10 + DigitVal(s[Len(s)])

RECURSIVE Pow10(_)
Pow10(k) == IF k = 0 THEN 1 ELSE 10 * Pow10(k - 1)

\* float() of an integer part ip and a fraction part fp, sign sgn
FloatOfDigits(sgn, ip, fp) ==
    IF AllDigits(ip) /\ AllDigits(fp) /\ Len(ip) + Len(fp) > 0
    THEN [ok |-> TRUE,
          val |-> Rat(sgn * (DigitsVal(ip) * Pow10(Len(fp)) + DigitsVal(fp)), Pow10(Len(fp)))]
    ELSE [ok |-> FALSE, val |-> None]

\* float() of an unsigned text whose first "." is at index dot (0: none)
FloatOfUnsigned(sgn, body, dot) ==
    IF dot = 0 THEN FloatOfDigits(sgn, body, <<>>)
    ELSE FloatOfDigits(sgn, SubSeq(body, 1, dot - 1), SubSeq(body, dot + 1, Len(body)))

\* float() of a text without surrounding whitespace
FloatOfStripped(t) ==
    IF t # <<>> /\ t[1] \in {"-", "+"}
    THEN FloatOfUnsigned(IF t[1] = "-" THEN -1 ELSE 1, Tail(t), Find(Tail(t), "."))
    ELSE FloatOfUnsigned(1, t, Find(t, "."))

\* float(s) on the decimal forms [sign] digits [. [digits]] and [sign] . digits;
\* every other text over the model's tokens raises ValueError (ok = FALSE)
float(s) == FloatOfStripped(Strip(s))

----------------------------------------------------------------------------
(* read_stat_value *)

\* `parts = [p.strip() for p in line.split(",")]`
Parts(line) == LET raw == Split(line, ",") IN [i \in 1..Len(raw) |-> Strip(raw[i])]

\* `return float(...)`, `except ValueError: return None`
FloatOrNone(f) == IF f.ok THEN f.val ELSE None

RECURSIVE ScanLinesSecondField(_, _, _)
\* variant of ScanLine: the value is taken from the second field, not the last
ScanLineSecondField(lines, k, i, parts) ==
    IF Len(parts) = 0 THEN ScanLinesSecondField(lines, k, i + 1)
    ELSE IF parts[1] = k /\ Len(parts) >= 2 THEN FloatOrNone(float(parts[2]))
    ELSE ScanLinesSecondField(lines, k, i + 1)

ScanLinesSecondField(lines, k, i) ==
    IF i > Len(lines) THEN None ELSE ScanLineSecondField(lines, k, i, Parts(lines[i]))

RECURSIVE ScanLinesSkipBad(_, _, _)
\* variant of ScanLine: a ValueError skips the line instead of ending the scan
ScanLineSkipBad(lines, k, i, parts) ==
    IF Len(parts) # 0 /\ parts[1] = k /\ Len(parts) >= 2 /\ float(parts[Len(parts)]).ok
    THEN float(parts[Len(parts)]).val
    ELSE ScanLinesSkipBad(lines, k, i + 1)

ScanLinesSkipBad(lines, k, i) ==
    IF i > Len(lines) THEN None ELSE ScanLineSkipBad(lines, k, i, Parts(lines[i]))

RECURSIVE ScanLines(_, _, _)
\* the body of the for loop, for line i split into parts
ScanLine(lines, k, i, parts) ==
    IF Len(parts) = 0 THEN ScanLines(lines, k, i + 1)
    ELSE IF parts[1] = k /\ Len(parts) >= 2 THEN FloatOrNone(float(parts[Len(parts)]))
    ELSE ScanLines(lines, k, i + 1)

\* the for loop over the lines of an open file, from line i on
ScanLines(lines, k, i) ==
    IF i > Len(lines) THEN None ELSE ScanLine(lines, k, i, Parts(lines[i]))

\* open() raises FileNotFoundError exactly when the path is not a file of fsys
read_stat_value(fsys, path, k) ==
    IF path \notin DOMAIN fsys THEN None ELSE ScanLines(fsys[path], k, 1)

----------------------------------------------------------------------------
(* compute_metrics: paths and per-pair formulas *)

Metrics == {"ipc", "branch_mispred", "dcache_miss", "icache_miss"}

\* os.path.join(a, b) of posixpath
PathJoin2(a, b) ==
    IF b # <<>> /\ b[1] = "/" THEN b
    ELSE IF a = <<>> \/ a[Len(a)] = "/" THEN a \o b
    ELSE a \o <<"/">> \o b

\* variant: the configuration is left out of the directory
bench_dir_no_cfg(sim, bench, e, cfg) == PathJoin2(PathJoin2(sim, bench), e)

bench_dir(sim, bench, e, cfg) == PathJoin2(PathJoin2(PathJoin2(sim, bench), e), cfg)

mem_stat(dir) == PathJoin2(dir, <<"memory.stat.0.csv">>)

bp_stat(dir) == PathJoin2(dir, <<"bp.stat.0.csv">>)

\* variant: the first path segment is taken, `b.split("/")[0]`
BenchNamesFirstSegment(wl) == [i \in 1..Len(wl) |-> Split(wl[i], "/")[1]]

\* `[b.split("/")[-1] for b in descriptor["workloads_list"]]`
BenchNames(wl) == [i \in 1..Len(wl) |-> LET p == Split(wl[i], "/") IN p[Len(p)]]

\* lines 68-72 and the reads made, given what the three lookups return
ipc_of(mem, cycles, insts, fallback, usable) ==
    [val |-> IF usable THEN FloatDiv(insts, cycles)
             ELSE IF fallback # None THEN fallback ELSE Zero,
     reads |-> << <<mem, <<"Periodic_Cycles">> >>, <<mem, <<"Periodic_Instructions">> >> >>
               \o (IF usable THEN <<>> ELSE << <<mem, <<"Periodic IPC">> >> >>)]

\* `cycles is not None and insts is not None and cycles != 0`
Usable(cycles, insts) == cycles # None /\ insts # None /\ cycles # Zero

\* variant: what "Periodic IPC" holds is ignored
ipc_value_no_fallback(fsys, mem) ==
    ipc_of(mem, read_stat_value(fsys, mem, <<"Periodic_Cycles">>),
           read_stat_value(fsys, mem, <<"Periodic_Instructions">>),
           None,
           Usable(read_stat_value(fsys, mem, <<"Periodic_Cycles">>),
                  read_stat_value(fsys, mem, <<"Periodic_Instructions">>)))

\* variant: "Periodic IPC" is read before the branch, on every pass
ipc_value_eager_fallback(fsys, mem) ==
    [val |-> ipc_of(mem, read_stat_value(fsys, mem, <<"Periodic_Cycles">>),
                    read_stat_value(fsys, mem, <<"Periodic_Instructions">>),
                    read_stat_value(fsys, mem, <<"Periodic IPC">>),
                    Usable(read_stat_value(fsys, mem, <<"Periodic_Cycles">>),
                           read_stat_value(fsys, mem, <<"Periodic_Instructions">>))).val,
     reads |-> << <<mem, <<"Periodic_Cycles">> >>, <<mem, <<"Periodic_Instructions">> >>,
                  <<mem, <<"Periodic IPC">> >> >>]

\* the `metric == "ipc"` branch: the value and the reads it makes, in order
ipc_value(fsys, mem) ==
    ipc_of(mem, read_stat_value(fsys, mem, <<"Periodic_Cycles">>),
           read_stat_value(fsys, mem, <<"Periodic_Instructions">>),
           read_stat_value(fsys, mem, <<"Periodic IPC">>),
           Usable(read_stat_value(fsys, mem, <<"Periodic_Cycles">>),
                  read_stat_value(fsys, mem, <<"Periodic_Instructions">>)))

\* variant: the guard is `total >= 0`
ratio_ge(miss, total) == IF total[1] >= 0 THEN FloatDiv(miss, total) ELSE Zero

\* `val = (miss / total) if total > 0 else 0.0`
ratio(miss, total) == IF FloatGt0(total) THEN FloatDiv(miss, total) ELSE Zero

\* `total = hit + miss` and the ratio
ratio_value(miss, hit) == ratio(miss, FloatAdd(hit, miss))

\* the `metric == "branch_mispred"` branch
branch_mispred_value(fsys, bp) ==
    [val |-> ratio_value(OrZero(read_stat_value(fsys, bp, <<"CBR_RECOVER_MISPREDICT_count">>)),
                         OrZero(read_stat_value(fsys, bp, <<"CBR_CORRECT_count">>))),
     reads |-> << <<bp, <<"CBR_CORRECT_count">> >>,
                  <<bp, <<"CBR_RECOVER_MISPREDICT_count">> >> >>]

\* the `metric == "dcache_miss"` and `metric == "icache_miss"` branches
cache_miss_value(fsys, mem, missKey, hitKey) ==
    [val |-> ratio_value(OrZero(read_stat_value(fsys, mem, missKey)),
                         OrZero(read_stat_value(fsys, mem, hitKey))),
     reads |-> << <<mem, missKey>>, <<mem, hitKey>> >>]

\* the if/elif chain of the loop body, for a metric of Metrics
metric_value(fsys, m, dir) ==
    CASE m = "ipc" -> ipc_value(fsys, mem_stat(dir))
      [] m = "branch_mispred" -> branch_mispred_value(fsys, bp_stat(dir))
      [] m = "dcache_miss" ->
            cache_miss_value(fsys, mem_stat(dir), <<"DCACHE_MISS_ONPATH_count">>,
                             <<"DCACHE_HIT_ONPATH_count">>)
      [] m = "icache_miss" ->
            cache_miss_value(fsys, mem_stat(dir), <<"ICACHE_MISS_ONPATH_count">>,
                             <<"ICACHE_HIT_ONPATH_count">>)

ylabel_of(m) ==
    CASE m = "ipc" -> "IPC"
      [] m = "branch_mispred" -> "Branch Misprediction Ratio"
      [] m = "dcache_miss" -> "D-Cache Miss Ratio"
      [] m = "icache_miss" -> "I-Cache Miss Ratio"

Quarter == Rat(1, 4)

\* the value ylim has after the loop body ran for metric m
ylim_of(m, old) == IF m = "ipc" THEN old ELSE <<Zero, Quarter>>

\* variant: the sum is not divided
avg_of_sum(vs) == IF vs # <<>> THEN sum(vs) ELSE Zero

\* `avg = sum(values) / len(values) if values else 0.0`
avg_of(vs) == IF vs # <<>> THEN FloatDiv(sum(vs), FloatOfInt(Len(vs))) ELSE Zero

\* `data[cfg] = values` on an insertion-ordered dict
DictSet(d, k, v) ==
    [keys |-> IF \E i \in 1..Len(d.keys) : d.keys[i] = k THEN d.keys ELSE Append(d.keys, k),
     val |-> [x \in DOMAIN d.val \cup {k} |-> IF x = k THEN v ELSE d.val[x]]]

EmptyDict == [keys |-> <<>>, val |-> <<>>]

file_suffix(m) ==
    CASE m = "ipc" -> "ipc.png"
      [] m = "branch_mispred" -> "branch_mispred.png"
      [] m = "dcache_miss" -> "dcache_miss.png"
      [] m = "icache_miss" -> "icache_miss.png"

----------------------------------------------------------------------------
(* Inputs *)

sim_path == <<"sims">>

\* one stat-file record `key,value\n`
Row(k, v) == <<k, ",">> \o v \o <<"\n">>

\* a file made of the rows that are present (<<>> stands for a row left out)
FileOf(rows) ==
    LET present == {i \in 1..Len(rows) : rows[i] # <<>>}
        F[i \in 0..Len(rows)] ==
            IF i = 0 THEN <<>>
            ELSE IF i \in present THEN Append(F[i - 1], rows[i]) ELSE F[i - 1]
    IN  F[Len(rows)]

\* texts written in a value column; <<"x">> is not a number
CycleTexts == {<<"0">>, <<"5", "0">>, <<"-", "4">>, <<"x">>}
InstTexts == {<<"1", "0", "0">>, <<"3">>, <<"x">>}
IpcTexts == {<<"1", ".", "2", "3">>, <<"x">>}
MissTexts == {<<"0">>, <<"1">>, <<"3">>, <<"-", "1">>, <<"x">>}
HitTexts == {<<"0">>, <<"1">>, <<"9">>, <<"-", "1">>}

OptRow(k, texts) == {<<>>} \cup {Row(k, v) : v \in texts}

\* memory.stat.0.csv contents exercising the ipc branch
IpcFiles ==
    {FileOf(<<i, c, f>>) : i \in OptRow("Periodic_Instructions", InstTexts),
                           c \in OptRow("Periodic_Cycles", CycleTexts),
                           f \in OptRow("Periodic IPC", IpcTexts)}

\* contents exercising a ratio branch with the given counter names
RatioFiles(missKey, hitKey) ==
    {FileOf(<<m, h>>) : m \in OptRow(missKey, MissTexts), h \in OptRow(hitKey, HitTexts)}

\* the stat file a metric reads, and the contents tried for it
StatName(m) == IF m = "branch_mispred" THEN <<"bp.stat.0.csv">> ELSE <<"memory.stat.0.csv">>

RichFiles(m) ==
    CASE m = "ipc" -> IpcFiles
      [] m = "branch_mispred" -> RatioFiles("CBR_RECOVER_MISPREDICT_count", "CBR_CORRECT_count")
      [] m = "dcache_miss" -> RatioFiles("DCACHE_MISS_ONPATH_count", "DCACHE_HIT_ONPATH_count")
      [] m = "icache_miss" -> RatioFiles("ICACHE_MISS_ONPATH_count", "ICACHE_HIT_ONPATH_count")
      [] OTHER -> {}

FewFiles(m) ==
    CASE m = "ipc" ->
            {FileOf(<<Row("Periodic_Instructions", <<"1", "0", "0">>),
                      Row("Periodic_Cycles", <<"5", "0">>)>>),
             FileOf(<<Row("Periodic_Cycles", <<"0">>),
                      Row("Periodic IPC", <<"1", ".", "2", "3">>)>>)}
      [] m = "branch_mispred" ->
            {FileOf(<<Row("CBR_CORRECT_count", <<"3">>),
                      Row("CBR_RECOVER_MISPREDICT_count", <<"1">>)>>),
             FileOf(<<Row("CBR_CORRECT_count", <<"0">>)>>)}
      [] m = "dcache_miss" ->
            {FileOf(<<Row("DCACHE_MISS_ONPATH_count", <<"1">>),
                      Row("DCACHE_HIT_ONPATH_count", <<"9">>)>>),
             FileOf(<<Row("DCACHE_HIT_ONPATH_count", <<"7">>)>>)}
      [] m = "icache_miss" ->
            {FileOf(<<Row("ICACHE_MISS_ONPATH_count", <<"2">>),
                      Row("ICACHE_HIT_ONPATH_count", <<"6">>)>>),
             FileOf(<<Row("ICACHE_MISS_ONPATH_count", <<"5">>)>>)}
      [] OTHER -> {}

MetricIds == Metrics \cup {"l2_miss"}

WorkloadEntries == {<<"dir", "/", "bench1">>, <<"bench2">>}

ConfigNames == {<<"cfgA">>, <<"cfgB">>}

experiment == <<"expX">>

SeqsUpTo(S, n) == UNION {[1..k -> S] : k \in 0..n}

\* the keys of a JSON object are distinct
ConfigLists == {c \in SeqsUpTo(ConfigNames, 2) : \A i, j \in 1..Len(c) : i # j => c[i] # c[j]}

Descriptors ==
    {[workloads_list |-> w, configurations |-> c, experiment |-> experiment] :
        w \in SeqsUpTo(WorkloadEntries, MaxWorkloads), c \in ConfigLists}

\* the directories compute_metrics visits for a descriptor
Dirs(desc) ==
    {bench_dir(sim_path, BenchNames(desc.workloads_list)[b], desc.experiment,
               desc.configurations[c]) :
        b \in 1..Len(desc.workloads_list), c \in 1..Len(desc.configurations)}

\* the file systems in which, for each directory of ds, the metric's stat
\* file either does not exist or holds one of the contents
FileSystems(m, ds, contents) ==
    LET PathOf(d) == PathJoin2(d, StatName(m))
        DirOf(p, E) == CHOOSE d \in E : PathOf(d) = p
    IN  UNION {{[p \in {PathOf(d) : d \in E} |-> f[DirOf(p, E)]] : f \in [E -> contents]} :
               E \in SUBSET ds}

----------------------------------------------------------------------------
(* compute_metrics, and the call of plot_data in main *)

ReaderIdle ==
    /\ stat_path = <<>>
    /\ key = <<>>
    /\ rpc = "idle"
    /\ ret = None

ComputeLocals ==
    /\ benches = <<>>
    /\ configs = <<>>
    /\ exp = <<>>
    /\ ci = 0
    /\ bi = 0
    /\ values = <<>>
    /\ data = EmptyDict
    /\ ylabel = ""
    /\ ylim = None
    /\ lookups = <<>>
    /\ result = None
    /\ output_files = {}

\* a call on a whole benchmark x configuration sweep
InitSweep ==
    /\ metric \in MetricIds
    /\ descriptor \in Descriptors
    /\ fs \in FileSystems(metric, Dirs(descriptor), FewFiles(metric))
    /\ pc = "call"
    /\ ComputeLocals
    /\ ReaderIdle

\* a call on one (configuration, benchmark) pair, over many file contents
InitPair ==
    /\ metric \in Metrics
    /\ descriptor = [workloads_list |-> << <<"dir", "/", "bench1">> >>,
                     configurations |-> << <<"cfgA">> >>,
                     experiment |-> experiment]
    /\ fs \in FileSystems(metric, Dirs(descriptor), RichFiles(metric))
    /\ pc = "call"
    /\ ComputeLocals
    /\ ReaderIdle

Init == InitSweep \/ InitPair

\* lines 49-55
Begin ==
    /\ pc = "call"
    /\ benches' = BenchNames(descriptor.workloads_list)
    /\ configs' = descriptor.configurations
    /\ exp' = descriptor.experiment
    /\ data' = EmptyDict
    /\ ylabel' = ""
    /\ ylim' = None
    /\ ci' = 1
    /\ bi' = 1
    /\ values' = <<>>
    /\ pc' = "loop"
    /\ UNCHANGED <<fs, descriptor, metric, lookups, result, output_files, readerVars>>

InBody == pc = "loop" /\ ci <= Len(configs) /\ bi <= Len(benches)

\* lines 59-99: one pass of the inner loop body for a known metric
PairStep ==
    /\ InBody
    /\ metric \in Metrics
    /\ \E r \in {metric_value(fs, metric, bench_dir(sim_path, benches[bi], exp, configs[ci]))} :
           /\ values' = Append(values, IF r.val = None THEN Zero ELSE r.val)
           /\ lookups' = Append(lookups, [cfg |-> ci, bench |-> bi, reads |-> r.reads])
    /\ ylabel' = ylabel_of(metric)
    /\ ylim' = ylim_of(metric, ylim)
    /\ bi' = bi + 1
    /\ UNCHANGED <<fs, descriptor, metric, pc, benches, configs, exp, ci, data, result,
                   output_files, readerVars>>

\* lines 94-95: `raise ValueError(f"Unknown metric '{metric}'")`
RaiseUnknown ==
    /\ InBody
    /\ metric \notin Metrics
    /\ pc' = "raised"
    /\ UNCHANGED <<fs, descriptor, metric, benches, configs, exp, ci, bi, values, data,
                   ylabel, ylim, lookups, result, output_files, readerVars>>

\* lines 101-103, then the next configuration
AvgStep ==
    /\ pc = "loop"
    /\ ci <= Len(configs)
    /\ bi > Len(benches)
    /\ data' = DictSet(data, configs[ci], Append(values, avg_of(values)))
    /\ ci' = ci + 1
    /\ bi' = 1
    /\ values' = <<>>
    /\ UNCHANGED <<fs, descriptor, metric, pc, benches, configs, exp, ylabel, ylim, lookups,
                   result, output_files, readerVars>>

\* lines 105-106
Return ==
    /\ pc = "loop"
    /\ ci > Len(configs)
    /\ result' = <<benches \o << <<"Avg">> >>, data, ylabel, ylim>>
    /\ pc' = "returned"
    /\ UNCHANGED <<fs, descriptor, metric, benches, configs, exp, ci, bi, values, data,
                   ylabel, ylim, lookups, output_files, readerVars>>

\* main, lines 208-209: plot_data saves the figure under file_suffix[metric]
PlotData ==
    /\ pc = "returned"
    /\ metric \in Metrics
    /\ output_files' = output_files \cup {file_suffix(metric)}
    /\ pc' = "plotted"
    /\ UNCHANGED <<fs, descriptor, metric, benches, configs, exp, ci, bi, values, data,
                   ylabel, ylim, lookups, result, readerVars>>

\* main, line 208: file_suffix[metric] raises KeyError
PlotKeyError ==
    /\ pc = "returned"
    /\ metric \notin Metrics
    /\ pc' = "keyerror"
    /\ UNCHANGED <<fs, descriptor, metric, benches, configs, exp, ci, bi, values, data,
                   ylabel, ylim, lookups, result, output_files, readerVars>>

Next == Begin \/ PairStep \/ RaiseUnknown \/ AvgStep \/ Return \/ PlotData \/ PlotKeyError

Spec == Init /\ [][Next]_vars

----------------------------------------------------------------------------
(* read_stat_value on its own *)

ReaderPath == <<"sims", "/", "memory.stat.0.csv">>

\* lines of a stat file: a record, a key alone, a non-number, padded fields
\* with an index column, another key, an empty value, an empty line, the
\* key in the second field, a second record of the key
ReaderLines ==
    {<<"Periodic_Cycles", ",", "5", "0", "\n">>,
     <<"Periodic_Cycles", "\n">>,
     <<"Periodic_Cycles", ",", "x", "\n">>,
     <<" ", "Periodic_Cycles", " ", ",", " ", "7", ",", " ", "1", "2", " ", "\n">>,
     <<"Periodic IPC", ",", "1", ".", "2", "3", "\n">>,
     <<"Periodic_Cycles", ",", "\n">>,
     <<"\n">>,
     <<"x", ",", "Periodic_Cycles", ",", "3", "\n">>,
     <<"Periodic_Cycles", ",", "-", "4">>}

ReaderKeys == {<<"Periodic_Cycles">>, <<"Periodic IPC">>, <<"Periodic_Instructions">>}

InitReader ==
    /\ fs \in {<<>>} \cup {[p \in {ReaderPath} |-> f] : f \in SeqsUpTo(ReaderLines, MaxLines)}
    /\ stat_path = ReaderPath
    /\ key \in ReaderKeys
    /\ rpc = "call"
    /\ ret = None
    /\ descriptor = [workloads_list |-> <<>>, configurations |-> <<>>, experiment |-> <<>>]
    /\ metric = ""
    /\ pc = "idle"
    /\ ComputeLocals

\* lines 20-39
ReadStatValue ==
    /\ rpc = "call"
    /\ ret' = read_stat_value(fs, stat_path, key)
    /\ rpc' = "returned"
    /\ UNCHANGED <<fs, stat_path, key, computeVars>>

NextReader == ReadStatValue

SpecReader == InitReader /\ [][NextReader]_vars

----------------------------------------------------------------------------
(* What the claims speak of *)

\* the (configuration index, benchmark index) pairs whose value has been computed
Computed ==
    {<<c, b>> \in (1..Len(configs)) \X (1..Len(benches)) : c < ci \/ (c = ci /\ b < bi)}

\* the value computed for a pair of Computed
ValueAt(c, b) == IF c < ci THEN data.val[configs[c]][b] ELSE values[b]

\* the text after the last "/" of a workload entry
TrailingSegment(w) ==
    LET slashes == {i \in 1..Len(w) : w[i] = "/"}
        k == IF slashes = {} THEN 0 ELSE CHOOSE i \in slashes : \A j \in slashes : j <= i
    IN  SubSeq(w, k + 1, Len(w))

\* statsRoot/<benchmark>/<experiment>/<configuration>/ for the pair (c, b)
PairDir(c, b) ==
    sim_path \o <<"/">> \o TrailingSegment(descriptor.workloads_list[b]) \o <<"/">>
        \o descriptor.experiment \o <<"/">> \o descriptor.configurations[c] \o <<"/">>

MemoryStats(c, b) == PairDir(c, b) \o <<"memory.stat.0.csv">>

BranchStats(c, b) == PairDir(c, b) \o <<"bp.stat.0.csv">>

\* a counter, an absent one counted as 0.0
Counter(path, k) ==
    LET v == read_stat_value(fs, path, k) IN IF v = None THEN Zero ELSE v

RatioMetrics == {"branch_mispred", "dcache_miss", "icache_miss"}

MissKey(m) ==
    CASE m = "branch_mispred" -> <<"CBR_RECOVER_MISPREDICT_count">>
      [] m = "dcache_miss" -> <<"DCACHE_MISS_ONPATH_count">>
      [] m = "icache_miss" -> <<"ICACHE_MISS_ONPATH_count">>

HitKey(m) ==
    CASE m = "branch_mispred" -> <<"CBR_CORRECT_count">>
      [] m = "dcache_miss" -> <<"DCACHE_HIT_ONPATH_count">>
      [] m = "icache_miss" -> <<"ICACHE_HIT_ONPATH_count">>

RatioStats(m, c, b) == IF m = "branch_mispred" THEN BranchStats(c, b) ELSE MemoryStats(c, b)

Miss(c, b) == Counter(RatioStats(metric, c, b), MissKey(metric))

Hit(c, b) == Counter(RatioStats(metric, c, b), HitKey(metric))

\* whether Periodic_Instructions / Periodic_Cycles can be formed for the pair
UsableRatio(c, b) ==
    /\ read_stat_value(fs, MemoryStats(c, b), <<"Periodic_Cycles">>) \notin {None, Zero}
    /\ read_stat_value(fs, MemoryStats(c, b), <<"Periodic_Instructions">>) # None

----------------------------------------------------------------------------
(* C1 *)

\* C1: for metric ipc every computed pair's value is Periodic_Instructions /
\* Periodic_Cycles when both are readable from the pair's memory stats file
\* and the cycles are not 0; otherwise it is the "Periodic IPC" value of that
\* file when readable, and 0.0 when not (a missing file included).
C1_IpcValue ==
    metric = "ipc" =>
        \A p \in Computed :
            LET mem == MemoryStats(p[1], p[2])
                cycles == read_stat_value(fs, mem, <<"Periodic_Cycles">>)
                insts == read_stat_value(fs, mem, <<"Periodic_Instructions">>)
                fallback == read_stat_value(fs, mem, <<"Periodic IPC">>)
            IN  ValueAt(p[1], p[2]) =
                    IF UsableRatio(p[1], p[2]) THEN FloatDiv(insts, cycles)
                    ELSE IF fallback # None THEN fallback
                    ELSE Zero

\* a file with `Periodic_Cycles,0` and `Periodic IPC,1.23` gave 1.23
C1_Witness ==
    /\ metric = "ipc"
    /\ pc = "returned"
    /\ \E p \in Computed :
        /\ read_stat_value(fs, MemoryStats(p[1], p[2]), <<"Periodic_Cycles">>) = Zero
        /\ ValueAt(p[1], p[2]) = <<123, 100>>

----------------------------------------------------------------------------
(* C2 *)

\* C2 as stated: for the three ratio metrics every computed pair's value is
\* miss / (hit + miss) whenever hit + miss is not 0 and 0.0 when it is 0, and
\* no division by zero occurs.
C2_RatioWheneverSumNonzero ==
    metric \in RatioMetrics =>
        \A p \in Computed :
            LET miss == Miss(p[1], p[2])
                total == FloatAdd(Hit(p[1], p[2]), miss)
            IN  /\ ValueAt(p[1], p[2]) # ZeroDivisionError
                /\ ValueAt(p[1], p[2]) = IF total # Zero THEN FloatDiv(miss, total) ELSE Zero

\* C2 amended: for the three ratio metrics every computed pair's value is
\* miss / (hit + miss) whenever hit + miss is greater than 0 and 0.0 when it
\* is 0 or negative, and no division by zero occurs.
C2_RatioWheneverSumPositive ==
    metric \in RatioMetrics =>
        /\ pc # "raised"
        /\ \A p \in Computed :
            LET miss == Miss(p[1], p[2])
                total == FloatAdd(Hit(p[1], p[2]), miss)
            IN  /\ ValueAt(p[1], p[2]) # ZeroDivisionError
                /\ ValueAt(p[1], p[2]) = IF total[1] > 0 THEN FloatDiv(miss, total) ELSE Zero

\* a pair whose counters sum to 0 with a counter present, and one with a
\* positive sum and a nonzero ratio, have been computed
C2_Witness ==
    /\ metric \in RatioMetrics
    /\ pc = "returned"
    /\ \E p \in Computed :
        /\ FloatAdd(Hit(p[1], p[2]), Miss(p[1], p[2])) = Zero
        /\ RatioStats(metric, p[1], p[2]) \in DOMAIN fs
        /\ ValueAt(p[1], p[2]) = Zero
    /\ \E p \in Computed :
        /\ FloatAdd(Hit(p[1], p[2]), Miss(p[1], p[2]))[1] > 0
        /\ ValueAt(p[1], p[2]) = <<1, 4>>

----------------------------------------------------------------------------
(* C3 *)

\* v[1] + ... + v[n], added left to right
RECURSIVE SumFirst(_, _)
SumFirst(v, n) == IF n = 0 THEN Zero ELSE FloatAdd(SumFirst(v, n - 1), v[n])

\* C3: for a metric of the enumerated set, the last value of every
\* configuration's sequence is the arithmetic mean of the preceding
\* len(workloads) values (last * n = their sum), and is 0.0 when the workload
\* list is empty.
C3_LastIsMean ==
    metric \in Metrics =>
        \A k \in 1..Len(data.keys) :
            LET v == data.val[data.keys[k]]
                n == Len(descriptor.workloads_list)
                total == SumFirst(v, n)
            IN  /\ Len(v) > n
                /\ IF n = 0 THEN v[Len(v)] = Zero
                   ELSE /\ v[Len(v)][2] > 0
                        /\ v[Len(v)][1] * n * total[2] = total[1] * v[Len(v)][2]

\* the end-to-end example: bench1 with 100 instructions in 50 cycles, bench2
\* without a stat file, give [2.0, 0.0, 1.0] for cfgA
C3_Witness ==
    /\ metric = "ipc"
    /\ pc = "returned"
    /\ descriptor.workloads_list = << <<"dir", "/", "bench1">>, <<"bench2">> >>
    /\ descriptor.configurations = << <<"cfgA">> >>
    /\ result[2].val[<<"cfgA">>] = << <<2, 1>>, Zero, <<1, 1>> >>

----------------------------------------------------------------------------
(* C4 *)

\* C4: for a metric of the enumerated set, the returned labels are the
\* trailing path segments of the workload entries, in order, followed by
\* "Avg" (len(workloads) + 1 labels), and every configuration's value
\* sequence has that same length.
C4_LabelsAndLengths ==
    (metric \in Metrics /\ pc \in {"returned", "plotted"}) =>
        LET labels == result[1]
            wl == descriptor.workloads_list
        IN  /\ Len(labels) = Len(wl) + 1
            /\ \A i \in 1..Len(wl) : labels[i] = TrailingSegment(wl[i])
            /\ labels[Len(labels)] = <<"Avg">>
            /\ \A k \in 1..Len(result[2].keys) :
                   Len(result[2].val[result[2].keys[k]]) = Len(labels)

\* the labels ["bench1", "bench2", "Avg"] were returned for ["dir/bench1", "bench2"]
C4_Witness ==
    /\ metric \in Metrics
    /\ pc = "returned"
    /\ descriptor.workloads_list = << <<"dir", "/", "bench1">>, <<"bench2">> >>
    /\ Len(descriptor.configurations) = 2
    /\ result[1] = << <<"bench1">>, <<"bench2">>, <<"Avg">> >>

----------------------------------------------------------------------------
(* C6 *)

\* C6: for every descriptor and every metric identifier outside the
\* enumerated set, compute_metrics fails: it never returns a result, and no
\* output file is written for the metric.
C6_UnknownMetricRaises ==
    metric \notin Metrics =>
        /\ pc \notin {"returned", "plotted", "keyerror"}
        /\ result = None
        /\ output_files = {}

----------------------------------------------------------------------------
(* C7 *)

AxisLabel(m) ==
    CASE m = "ipc" -> "IPC"
      [] m = "branch_mispred" -> "Branch Misprediction Ratio"
      [] m = "dcache_miss" -> "D-Cache Miss Ratio"
      [] m = "icache_miss" -> "I-Cache Miss Ratio"

ClampRange(m) == IF m = "ipc" THEN None ELSE <<Zero, <<1, 4>> >>

\* C7: for every descriptor and each metric of the enumerated set, the axis
\* label and the clamp range returned are the ones fixed for the metric.
C7_AxisAndRange ==
    (metric \in Metrics /\ pc \in {"returned", "plotted"}) =>
        /\ result[3] = AxisLabel(metric)
        /\ result[4] = ClampRange(metric)

----------------------------------------------------------------------------
(* C8 *)

IsPrefix(a, b) == Len(a) <= Len(b) /\ SubSeq(b, 1, Len(a)) = a

\* the file system with every file outside directory dir removed
OnlyUnder(dir) == [p \in {q \in DOMAIN fs : IsPrefix(dir, q)} |-> fs[p]]

\* the file system with every file outside directory dir replaced by an empty file
OthersEmptied(dir) == [p \in DOMAIN fs |-> IF IsPrefix(dir, p) THEN fs[p] ELSE <<>>]

\* C8: for a metric of the enumerated set the returned mapping has the
\* descriptor's configuration names as keys, in descriptor order, and the
\* i-th value of configuration c is the metric's value on the stat files
\* under statsRoot/<i-th trailing segment>/<experiment>/<c>/ alone: removing
\* or emptying every other stat file gives the same value.
C8_KeysAndFrame ==
    (metric \in Metrics /\ pc \in {"returned", "plotted"}) =>
        /\ result[2].keys = descriptor.configurations
        /\ DOMAIN result[2].val = {descriptor.configurations[c] :
                                      c \in 1..Len(descriptor.configurations)}
        /\ \A c \in 1..Len(descriptor.configurations) :
           \A i \in 1..Len(descriptor.workloads_list) :
               LET dir == PairDir(c, i)
                   v == result[2].val[descriptor.configurations[c]][i]
               IN  /\ v = metric_value(OnlyUnder(dir), metric, dir).val
                   /\ v = metric_value(OthersEmptied(dir), metric, dir).val

\* two configurations in the order cfgB, cfgA whose values for the same
\* benchmark differ
C8_Witness ==
    /\ metric \in Metrics
    /\ pc = "returned"
    /\ descriptor.configurations = << <<"cfgB">>, <<"cfgA">> >>
    /\ result[2].keys = << <<"cfgB">>, <<"cfgA">> >>
    /\ Len(descriptor.workloads_list) = 2
    /\ result[2].val[<<"cfgB">>][1] # result[2].val[<<"cfgA">>][1]
    /\ result[2].val[<<"cfgA">>][1] # result[2].val[<<"cfgA">>][2]

----------------------------------------------------------------------------
(* C10 *)

NoRepeat(q) == \A i, j \in 1..Len(q) : i # j => q[i] # q[j]

\* C10: within one call every executed loop body belongs to its own
\* (configuration, benchmark) pair, taken in order, and makes no (stat file,
\* key) lookup twice: a ratio metric makes exactly its two lookups, and ipc
\* looks up Periodic_Cycles and Periodic_Instructions first and "Periodic IPC"
\* afterwards exactly when those two gave no usable ratio.
C10_LookupsOnce ==
    /\ Len(lookups) = Cardinality(Computed)
    /\ \A i, j \in 1..Len(lookups) :
           i < j => \/ lookups[i].cfg < lookups[j].cfg
                    \/ lookups[i].cfg = lookups[j].cfg /\ lookups[i].bench < lookups[j].bench
    /\ \A i \in 1..Len(lookups) :
           LET c == lookups[i].cfg
               b == lookups[i].bench
               reads == lookups[i].reads
           IN  /\ <<c, b>> \in Computed
               /\ NoRepeat(reads)
               /\ metric \in RatioMetrics =>
                      /\ Len(reads) = 2
                      /\ {reads[1], reads[2]} =
                             {<<RatioStats(metric, c, b), MissKey(metric)>>,
                              <<RatioStats(metric, c, b), HitKey(metric)>>}
               /\ metric = "ipc" =>
                      /\ Len(reads) = IF UsableRatio(c, b) THEN 2 ELSE 3
                      /\ reads[1] = <<MemoryStats(c, b), <<"Periodic_Cycles">> >>
                      /\ reads[2] = <<MemoryStats(c, b), <<"Periodic_Instructions">> >>
                      /\ Len(reads) = 3 => reads[3] = <<MemoryStats(c, b), <<"Periodic IPC">> >>

\* an ipc call has computed one pair with two lookups and one with three,
\* the third having returned absent
C10_Witness ==
    /\ metric = "ipc"
    /\ pc = "returned"
    /\ \E i, j \in 1..Len(lookups) :
        /\ Len(lookups[i].reads) = 2
        /\ Len(lookups[j].reads) = 3
        /\ read_stat_value(fs, lookups[j].reads[3][1], lookups[j].reads[3][2]) = None

----------------------------------------------------------------------------
(* C5, C9: read_stat_value *)

\* the trimmed first field of a line is the key
KeyFirst(line) == Parts(line)[1] = key

\* the lines that have the key as trimmed first field and at least two fields
Matches(lines) == {i \in 1..Len(lines) : KeyFirst(lines[i]) /\ Len(Parts(lines[i])) >= 2}

\* the first of them, 0 when there is none
FirstMatch(lines) ==
    IF Matches(lines) = {} THEN 0
    ELSE CHOOSE i \in Matches(lines) : \A j \in Matches(lines) : i <= j

LastField(line) == Parts(line)[Len(Parts(line))]

\* C5: read_stat_value returns None when the file does not exist, when no
\* line has the key as its trimmed first field, and when the matching line's
\* last field is not a number; it returns the number written in the last
\* field of a well-formed matching line (12 for ` Periodic_Cycles , 7, 12 `,
\* -4 for `Periodic_Cycles,-4`, 1.23 for `Periodic IPC,1.23`).
C5_AbsentOrParsed ==
    rpc = "returned" =>
        IF stat_path \notin DOMAIN fs THEN ret = None
        ELSE LET lines == fs[stat_path]
                 q == FirstMatch(lines)
             IN  /\ (\A i \in 1..Len(lines) : ~KeyFirst(lines[i])) => ret = None
                 /\ (q > 0 /\ ~float(LastField(lines[q])).ok) => ret = None
                 /\ (q > 0 /\ float(LastField(lines[q])).ok) =>
                        /\ ret # None
                        /\ ret = float(LastField(lines[q])).val
                 /\ (q > 0 /\ lines[q] = <<" ", "Periodic_Cycles", " ", ",", " ", "7", ",",
                                          " ", "1", "2", " ", "\n">>) => ret = <<12, 1>>
                 /\ (q > 0 /\ lines[q] = <<"Periodic_Cycles", ",", "-", "4">>) => ret = <<-4, 1>>
                 /\ (q > 0 /\ lines[q] = <<"Periodic IPC", ",", "1", ".", "2", "3", "\n">>) =>
                        ret = <<123, 100>>

\* the padded record with an index column, after a line that names the key in
\* its second field, was read as 12
C5_Witness ==
    /\ rpc = "returned"
    /\ stat_path \in DOMAIN fs
    /\ fs[stat_path] = << <<"x", ",", "Periodic_Cycles", ",", "3", "\n">>,
                          <<" ", "Periodic_Cycles", " ", ",", " ", "7", ",", " ", "1", "2",
                            " ", "\n">> >>
    /\ key = <<"Periodic_Cycles">>
    /\ ret = <<12, 1>>

\* the file at stat_path replaced by the given lines
WithLines(lines) == [p \in {stat_path} |-> lines]

\* C9: the result is decided by the first line that has the key as trimmed
\* first field and at least two fields: a last field that does not parse gives
\* None whatever follows, the lines after that line do not change the result,
\* and lines made of the key alone are passed over.
C9_FirstMatchDecides ==
    (rpc = "returned" /\ stat_path \in DOMAIN fs) =>
        LET lines == fs[stat_path]
            q == FirstMatch(lines)
            KeyAlone(l) == Len(Parts(l)) = 1 /\ KeyFirst(l)
            NotKeyAlone(l) == ~KeyAlone(l)
        IN  /\ q = 0 => ret = None
            /\ q > 0 =>
                /\ ret = IF float(LastField(lines[q])).ok
                         THEN float(LastField(lines[q])).val ELSE None
                /\ \A l \in ReaderLines :
                       /\ read_stat_value(WithLines(SubSeq(lines, 1, q)), stat_path, key) = ret
                       /\ read_stat_value(WithLines(Append(SubSeq(lines, 1, q), l)),
                                          stat_path, key) = ret
            /\ read_stat_value(WithLines(SelectSeq(lines, NotKeyAlone)), stat_path, key) = ret

\* a line of the key alone, then an unparseable record, then a parseable
\* record of the same key: the result is None
C9_Witness ==
    /\ rpc = "returned"
    /\ stat_path \in DOMAIN fs
    /\ key = <<"Periodic_Cycles">>
    /\ fs[stat_path] = << <<"Periodic_Cycles", "\n">>,
                          <<"Periodic_Cycles", ",", "x", "\n">>,
                          <<"Periodic_Cycles", ",", "5", "0", "\n">> >>
    /\ ret = None

====
